---- MODULE Spec2Model ----
(***************************************************************************)
(* Gitget (as3ninja/gitget.py): a context manager that clones a git       *)
(* repository into a working directory, optionally checks out a commit,   *)
(* reads the commit metadata and removes the directory on exit.           *)
(*                                                                         *)
(* Strings that the code inspects character by character (shlex.quote,    *)
(* len, slicing, int) are tuples of one-character strings; error kinds,   *)
(* program counters and option words are TLA+ strings.                    *)
(*                                                                         *)
(* Spec      one object, used in one with statement                        *)
(* SpecReuse one object, which the caller may enter again                  *)
(* SpecPair  two objects, stepped in every interleaving                    *)
(* SpecQuote the static method _sh_quote on its own                        *)
(***************************************************************************)
EXTENDS Integers, Sequences, FiniteSets, TLC

\* Python's None, as a value comparable with every string of the model: the
\* one-piece word "None" is no string of characters.
None == <<"None">>

\* Python truthiness of an optional string: None and "" are false
Truthy(x) == x # None /\ x # <<>>

(***************************************************************************)
(* Bounds of the model.                                                    *)
(***************************************************************************)
\* rmrepodir may be called any number of times; the model stops counting here.
MaxRmCalls == 2
\* the largest clone depth a caller asks for
MaxDepth == 1
\* the negative depths a caller asks for reach down to -MaxNegDepth
MaxNegDepth == 2
\* how many with statements the caller writes on one Gitget object
MaxEnters == 2
\* rmrepodir calls on each of two objects used side by side
MaxPairRmCalls == 1
\* the longest string handed to _sh_quote on its own
MaxQuoteLen == 3

(***************************************************************************)
(* Character strings.                                                      *)
(***************************************************************************)
LowerChars == {"a","b","c","d","e","f","g","h","i","j","k","l","m",
               "n","o","p","q","r","s","t","u","v","w","x","y","z"}
UpperChars == {"A","B","C","D","E","F","G","H","I","J","K","L","M",
               "N","O","P","Q","R","S","T","U","V","W","X","Y","Z"}
DigitChars == <<"0","1","2","3","4","5","6","7","8","9">>
DigitSet == {DigitChars[i] : i \in 1..10}

\* shlex._find_unsafe: every character outside [\w@%+=:,./-] is unsafe
SafeChars == LowerChars \cup UpperChars \cup DigitSet
             \cup {"_", "@", "%", "+", "=", ":", ",", ".", "/", "-"}

RECURSIVE Concat(_)
\* "".join(parts)
Concat(parts) ==
  IF parts = <<>> THEN <<>> ELSE Head(parts) \o Concat(Tail(parts))

\* a string of n copies of character c
Rep(c, n) == [i \in 1..n |-> c]

RECURSIVE IntToStr(_)
\* str(n) for an integer
IntToStr(n) ==
  IF n < 0 THEN <<"-">> \o IntToStr(0 - n)
  ELSE IF n < 10 THEN <<DigitChars[n + 1]>>
  ELSE IntToStr(n \div 10) \o <<DigitChars[(n % 10) + 1]>>

DigitValue(c) == CHOOSE d \in 0..9 : DigitChars[d + 1] = c

RECURSIVE StrToInt(_)
\* int(s) for a string of decimal digits
StrToInt(s) ==
  IF Len(s) = 1 THEN DigitValue(s[1])
  ELSE StrToInt(SubSeq(s, 1, Len(s) - 1)) * 10 + DigitValue(s[Len(s)])

\* the left-padded decimal form strftime writes for a field of width w
Pad(n, w) ==
  LET s == IntToStr(n) IN Rep("0", w - Len(s)) \o s

(***************************************************************************)
(* Gitget._sh_quote: shlex.quote(str(arg)).                               *)
(***************************************************************************)
\* a single quote escaped with a backslash inside the quotes
EscapeQuotes_backslash(s) ==
  Concat([i \in 1..Len(s) |->
            IF s[i] = "'" THEN <<"\\", "'">> ELSE <<s[i]>>])

\* s.replace("'", "'\"'\"'")
EscapeQuotes(s) ==
  Concat([i \in 1..Len(s) |->
            IF s[i] = "'" THEN <<"'", "\"", "'", "\"", "'">> ELSE <<s[i]>>])

ShlexQuote(s) ==
  IF s = <<>> THEN <<"'", "'">>
  ELSE IF \A i \in 1..Len(s) : s[i] \in SafeChars THEN s
  ELSE <<"'">> \o EscapeQuotes(s) \o <<"'">>

\* A Python value whose type the code converts: an int or a str.
PyInt(n) == [int |-> n]
PyStr(s) == [str |-> s]
IsInt(v) == "int" \in DOMAIN v

\* str(arg): an integer becomes its decimal form, a string is itself
StrOf(arg) == IF IsInt(arg) THEN IntToStr(arg.int) ELSE arg.str

sh_quote(arg) == ShlexQuote(StrOf(arg))

(***************************************************************************)
(* Gitget._datetime_format:                                                *)
(* datetime.utcfromtimestamp(int(epoch)).strftime("%Y-%m-%dT%H:%M:%SZ")   *)
(***************************************************************************)
\* int(epoch): epoch is an integer or a string of digits
IntOf(epoch) == IF IsInt(epoch) THEN epoch.int ELSE StrToInt(epoch.str)

\* the proleptic Gregorian date of a day number counted from 1970-01-01
CivilFromDays(days) ==
  LET z   == days + 719468
      era == z \div 146097
      doe == z - era * 146097
      yoe == (doe - (doe \div 1460) + (doe \div 36524) - (doe \div 146096)) \div 365
      doy == doe - (365 * yoe + (yoe \div 4) - (yoe \div 100))
      mp  == (5 * doy + 2) \div 153
      d   == doy - ((153 * mp + 2) \div 5) + 1
      m   == IF mp < 10 THEN mp + 3 ELSE mp - 9
      y   == yoe + era * 400 + (IF m <= 2 THEN 1 ELSE 0)
  IN  [year |-> y, month |-> m, day |-> d]

datetime_format(epoch) ==
  LET t    == IntOf(epoch)
      date == CivilFromDays(t \div 86400)
      secs == t % 86400
  IN  Pad(date.year, 4) \o <<"-">> \o Pad(date.month, 2) \o <<"-">>
      \o Pad(date.day, 2) \o <<"T">> \o Pad(secs \div 3600, 2) \o <<":">>
      \o Pad((secs % 3600) \div 60, 2) \o <<":">> \o Pad(secs % 60, 2)
      \o <<"Z">>


(***************************************************************************)
(* Inputs: the values a caller passes to Gitget(...).                      *)
(***************************************************************************)
\* len(commit) < 40 is rejected by __init__
CommitIdLen == 40

RepoUrl == <<"h","t","t","p","s",":","/","/","h","/","r">>
Repos == {RepoUrl}

\* mkdtemp(suffix=".ninja.git") returns a fresh directory of this form
TmpDir == <<"/","t","m","p","/","t","m","p","k","3","_","x",".","n","i","n","j","a",".","g","i","t">>
\* the fresh directory a second mkdtemp call of the process returns
TmpDir2 == <<"/","t","m","p","/","t","m","p","q","7","_","y",".","n","i","n","j","a",".","g","i","t">>
\* caller-supplied directories: one that shlex.quote leaves alone, one with a space
UserDir == <<"/","s","r","v","/","r","e","p","o">>
UserDirSp == <<"/","s","r","v","/","m","y"," ","r","e","p","o">>
UserDirs == {UserDir, UserDirSp}

BranchMain == <<"m","a","i","n">>
Branches == {None, BranchMain}

CommitLens == {0, 7, CommitIdLen - 1, CommitIdLen, CommitIdLen + 1}
Commits == {None} \cup {Rep("f", n) : n \in CommitLens}

Depths == (0 - MaxNegDepth) .. MaxDepth

(***************************************************************************)
(* The file system: which directories exist and what they hold.  An entry *)
(* records who wrote it: "prior" was there before the session, "session"  *)
(* was written by the session's git subcommands.                           *)
(***************************************************************************)
\* os.path.join(cwd, arg): how a subprocess started in cwd resolves a path
JoinPath(cwd, arg) ==
  IF arg # <<>> /\ arg[1] = "/" THEN arg ELSE cwd \o <<"/">> \o arg

BaseDirs == {TmpDir, TmpDir2} \cup UserDirs
Dirs == BaseDirs \cup {JoinPath(d, ShlexQuote(d)) : d \in BaseDirs}

\* q is p or lies below p
Under(p, q) ==
  \/ q = p
  \/ Len(q) > Len(p) /\ SubSeq(q, 1, Len(p) + 1) = p \o <<"/">>

Entry(name, by) == [name |-> name, by |-> by]
Absent == [exists |-> FALSE, files |-> {}]
EmptyDir == [exists |-> TRUE, files |-> {}]
\* what an earlier clone left behind, and what a caller's own files look like
PriorClone == [exists |-> TRUE,
               files |-> {Entry(".git", "prior"), Entry("README", "prior")}]
PriorFiles == [exists |-> TRUE, files |-> {Entry("notes.txt", "prior")}]
PriorStates == {Absent, EmptyDir, PriorClone, PriorFiles}

\* Path(p).exists()
PathExists(f, p) == f[p].exists

\* a directory holding no file and no subdirectory
IsEmptyDir(f, p) ==
  /\ f[p].files = {}
  /\ \A q \in Dirs : (q # p /\ Under(p, q)) => ~f[q].exists

\* shutil.rmtree(p) when it succeeds: p and all below it are gone (when it
\* is refused, see rmtree_error, the model leaves everything in place)
rmtree(f, p) == [q \in Dirs |-> IF Under(p, q) THEN Absent ELSE f[q]]

\* Path(p).mkdir(mode=0o700, parents=True, exist_ok=True)
mkdir(f, p) == IF f[p].exists THEN f ELSE [f EXCEPT ![p] = EmptyDir]

\* git finds a repository in cwd (none of the parents of the model's
\* directories is one)
HasGit(f, cwd) == f[cwd].exists /\ \E e \in f[cwd].files : e.name = ".git"

\* whose repository a git subcommand run in cwd reads
RepoOwner(f, cwd) == (CHOOSE e \in f[cwd].files : e.name = ".git").by

(***************************************************************************)
(* Program state.                                                          *)
(***************************************************************************)
VARIABLES
  pc,        \* where the caller's use of the session stands
  depth,     \* self._depth
  branch,    \* self._branch
  commit,    \* self._commit
  repo,      \* self._repo
  repodir,   \* self._repodir
  persist,   \* self._repodir_perist
  force,     \* self._force
  gitlog,    \* self._gitlog
  fs,        \* the file system
  locked,    \* the file system refuses to remove directories (rmtree raises)
  calls,     \* every subprocess the session started: argv, cwd, how it ended
  raised,    \* every exception that reached the caller, in order
  rmCalls,   \* how often the caller called rmrepodir
  request,   \* the arguments the caller passed to Gitget(...)
  fs0,       \* the file system before the session was constructed
  fsEnter,   \* the file system when __enter__ was called (the last time)
  enters,    \* how often the caller entered a with statement on the object
  other,     \* a second Gitget object of the process, while the caller is
             \* not stepping it: its attributes and its own history
  shArg,     \* the value a caller hands to the static method _sh_quote
  shQuoted   \* what _sh_quote returned for it

vars == <<pc, depth, branch, commit, repo, repodir, persist, force, gitlog,
          fs, locked, calls, raised, rmCalls, request, fs0, fsEnter, enters,
          other, shArg, shQuoted>>

history == <<request, fs0, fsEnter>>

quoting == <<shArg, shQuoted>>

session == <<depth, branch, commit, repo, repodir, persist, force>>

EmptyDict == <<>>

\* the directories of the tree rooted at dir, with what they hold
OwnTree(f, dir) == [q \in {d \in Dirs : Under(dir, d)} |-> f[q]]

\* an object of the process, as the names above describe it, with the tree
\* of its working directory as the caller last saw it
Object(p, d, b, c, r, dir, keep, frc, log, cs, rs, rm, req, n, f) ==
  [pc |-> p, depth |-> d, branch |-> b, commit |-> c, repo |-> r,
   repodir |-> dir, persist |-> keep, force |-> frc, gitlog |-> log,
   calls |-> cs, raised |-> rs, rmCalls |-> rm, request |-> req,
   enters |-> n, tree |-> OwnTree(f, dir)]

InitGitget ==
  /\ pc = "new"
  /\ depth = 0
  /\ branch = None
  /\ commit = None
  /\ repo = None
  /\ repodir = None
  /\ persist = FALSE
  /\ force = FALSE
  /\ gitlog = [branch |-> None, commit |-> EmptyDict, author |-> EmptyDict]
  /\ \E u \in UserDirs, st \in PriorStates :
       fs = [d \in Dirs |-> IF d = u THEN st ELSE Absent]
  /\ fs0 = fs
  /\ fsEnter = fs
  /\ request = None
  /\ locked \in BOOLEAN
  /\ calls = <<>>
  /\ raised = <<>>
  /\ rmCalls = 0
  /\ enters = 0
  /\ other = Object(pc, depth, branch, commit, repo, repodir, persist, force,
                    gitlog, calls, raised, rmCalls, request, enters, fs)

\* no call of _sh_quote on its own
Init == InitGitget /\ shArg = None /\ shQuoted = None

Raise(op, kind) == raised' = Append(raised, [op |-> op, kind |-> kind])

(***************************************************************************)
(* Gitget.__init__                                                         *)
(***************************************************************************)
\* __init__ without its depth check
init_error_no_depth(d, c) ==
  IF Truthy(c) /\ Len(c) < CommitIdLen THEN "ValueError" ELSE "none"

\* __init__ comparing len(commit) <= 40
init_error_le(d, c) ==
  IF d < 0 THEN "ValueError"
  ELSE IF Truthy(c) /\ Len(c) <= CommitIdLen THEN "ValueError"
  ELSE "none"

\* the exception __init__ raises for its arguments, or "none"
init_error(d, c) ==
  IF d < 0 THEN "ValueError"
  ELSE IF Truthy(c) /\ Len(c) < CommitIdLen THEN "ValueError"
  ELSE "none"

\* a temporary name that is only chosen, not created (tempfile.mktemp)
mkdtemp_name_only(f) == f

\* mkdtemp returning one name for every call
FreshTmp_same == TmpDir

\* the name mkdtemp chooses: one that no earlier call of the process returned
FreshTmp == IF other.repodir = TmpDir THEN TmpDir2 ELSE TmpDir

\* mkdtemp(suffix=".ninja.git"): the directory is created, empty
mkdtemp(f) == [f EXCEPT ![FreshTmp] = EmptyDir]

Construct ==
  /\ pc = "new"
  /\ \E r \in Repos, d \in Depths, b \in Branches, c \in Commits,
        dir \in {None} \cup UserDirs, f \in BOOLEAN :
       /\ request' = [repository |-> r, depth |-> d, branch |-> b,
                      commit |-> c, repodir |-> dir, force |-> f]
       /\ IF init_error(d, c) # "none"
          THEN /\ pc' = "invalid"
               /\ Raise("__init__", init_error(d, c))
               /\ UNCHANGED <<session, gitlog, fs>>
          ELSE /\ pc' = "created"
               /\ depth' = d
               /\ branch' = b
               /\ commit' = c
               /\ repo' = r
               /\ force' = f
               /\ IF Truthy(dir)
                  THEN /\ repodir' = dir
                       /\ persist' = TRUE
                       /\ fs' = fs
                  ELSE /\ repodir' = FreshTmp
                       /\ persist' = FALSE
                       /\ fs' = mkdtemp(fs)
               /\ gitlog' = [branch |-> b, commit |-> EmptyDict, author |-> EmptyDict]
               /\ UNCHANGED raised
  /\ UNCHANGED <<locked, calls, rmCalls, fs0, fsEnter, enters, other, quoting>>

(***************************************************************************)
(* Subprocesses.  git is an external program: the model gives each         *)
(* subcommand the outcomes the environment can produce, and fixes the      *)
(* outcome where git itself decides it from the arguments and the files.   *)
(***************************************************************************)
\* a fixed word of a command line
Lit(w) == <<w>>

\* self._gitcmd; the two settings come from NINJASETTINGS
gitcmd ==
  <<Lit("git"), Lit("-c"), Lit("http.sslVerify=GITGET_SSL_VERIFY"),
    Lit("-c"), Lit("http.proxy=GITGET_PROXY")>>

\* how a subprocess ends when the environment decides: exit status 0, a
\* non-zero exit status (network, authentication, unknown reference), or the
\* timeout expiring after it wrote something, or nothing, to standard error
Outcomes == {"ok", "exit", "timeout_stderr", "timeout_silent"}
Timeouts == {"timeout_stderr", "timeout_silent"}
\* how it ends when git refuses the command for its arguments or the files
\* it finds: a non-zero exit status with a message on standard error
Rejected == {"rejected"}

\* the exception _run_command raises for an outcome ("none": it returns).
\* TimeoutExpired.stderr is None when nothing was captured, and
\* None.decode raises AttributeError inside the handler.
run_command_error(o) ==
  CASE o = "ok" -> "none"
    [] o \in {"exit", "rejected"} -> "GitgetException"
    [] o = "timeout_stderr" -> "GitgetException"
    [] o = "timeout_silent" -> "AttributeError"

\* cmd = [command for command in cmd if command]; self._gitcmd + cmd
run_argv(cmd) == gitcmd \o SelectSeq(cmd, Truthy)

\* the word after the git options: which subcommand a subprocess ran
Subcommand(c) == c.argv[Len(gitcmd) + 1]

\* _clone passing --depth whatever the depth is
clone_cmd_depth_always(d, b, r, dir) ==
  <<Lit("clone"),
    Lit("--depth"),
    sh_quote(PyInt(d)),
    IF Truthy(b) THEN Lit("--branch") ELSE None,
    IF Truthy(b) THEN sh_quote(PyStr(b)) ELSE None,
    sh_quote(PyStr(r)),
    sh_quote(PyStr(dir))>>

\* the list _clone hands to _run_command
clone_cmd(d, b, r, dir) ==
  <<Lit("clone"),
    IF d # 0 THEN Lit("--depth") ELSE None,
    IF d # 0 THEN sh_quote(PyInt(d)) ELSE None,
    IF Truthy(b) THEN Lit("--branch") ELSE None,
    IF Truthy(b) THEN sh_quote(PyStr(b)) ELSE None,
    sh_quote(PyStr(r)),
    sh_quote(PyStr(dir))>>

fetch_cmd(c) ==
  <<Lit("fetch"), Lit("--depth"), Lit("1"), Lit("origin"), sh_quote(PyStr(c))>>

checkout_cmd(c) == <<Lit("checkout"), sh_quote(PyStr(c))>>

log_cmd == <<Lit("log"), Lit("-n"), Lit("1"), Lit("--pretty=%H%n%ct%n%s%n%an%n%aE%n%at")>>

branch_cmd == <<Lit("branch"), Lit("--show-current")>>

\* git clone <repository> <directory>, run in cwd: the directory it writes
CloneTarget(cwd, argv) == JoinPath(cwd, argv[Len(argv)])
CloneSource(argv) == argv[Len(argv) - 1]

\* git clone refuses an unknown repository and a destination that exists
\* and is not empty; otherwise the network decides
CloneOutcomes(f, cwd, argv) ==
  IF \/ CloneSource(argv) \notin Repos
     \/ (PathExists(f, CloneTarget(cwd, argv))
           /\ ~IsEmptyDir(f, CloneTarget(cwd, argv)))
  THEN Rejected
  ELSE Outcomes

ClonedFiles == {Entry(".git", "session"), Entry("tree", "session")}
PartialFiles == {Entry(".git", "session")}

\* what git clone leaves: the work tree on success, nothing after a failure
\* it reports itself, and possibly a partial .git when it is killed
CloneEffect(f, target, o, partial) ==
  CASE o = "ok" -> [f EXCEPT ![target] = [exists |-> TRUE, files |-> ClonedFiles]]
    [] o \in {"exit", "rejected"} -> f
    [] o \in Timeouts ->
         IF partial
         THEN [f EXCEPT ![target] = [exists |-> TRUE, files |-> PartialFiles]]
         ELSE f

\* fetch, checkout, log and branch need a repository in cwd; fetch and
\* checkout of a commit need a full object name
RepoOutcomes(f, cwd) == IF HasGit(f, cwd) THEN Outcomes ELSE Rejected
CommitOutcomes(f, cwd, arg) ==
  IF HasGit(f, cwd) /\ Len(arg) = CommitIdLen THEN Outcomes ELSE Rejected

(***************************************************************************)
(* What git prints.                                                        *)
(***************************************************************************)
SessionHead == Rep("a", CommitIdLen)
PriorHead == Rep("b", CommitIdLen)
CommitEpoch == <<"1","2","3","4","5","6","7","8","9","0">>
AuthorEpoch == <<"9","5","1","7","8","2","4","0","0">>
Subject == <<"F","i","x"," ","b","u","g">>
\* a subject line holding a form feed
SubjectFF == <<"F","i","x","\f","b","u","g">>
AuthorName == <<"J","a","n","e"," ","D","o","e">>
AuthorEmail == <<"j","a","n","e","@","x",".","c","o","m">>

\* the six lines of --pretty=%H%n%ct%n%s%n%an%n%aE%n%at
LogLinesOf(head, subject) ==
  <<head, CommitEpoch, subject, AuthorName, AuthorEmail, AuthorEpoch>>
LogLines(head) == LogLinesOf(head, Subject)

\* lines written one per line, each ended by a newline
JoinLines(lines) ==
  Concat([i \in 1..Len(lines) |-> lines[i] \o <<"\n">>])

\* the commit a log run in cwd reports
HeadOf(f, cwd, c) ==
  IF RepoOwner(f, cwd) = "prior" THEN PriorHead
  ELSE IF Truthy(c) THEN c ELSE SessionHead

\* what the log subcommand may print: the six lines, with an everyday
\* subject or one that holds a form feed, or fewer lines, or more
LogStdouts(head) ==
  {JoinLines(LogLines(head)),
   JoinLines(LogLinesOf(head, SubjectFF)),
   JoinLines(SubSeq(LogLines(head), 1, 5)),
   JoinLines(LogLines(head) \o <<Subject>>)}

\* what git branch --show-current prints: the branch the clone checked out,
\* or nothing once a commit was checked out (HEAD is detached)
BranchStdout ==
  IF Truthy(commit) THEN <<>> ELSE <<"m","a","s","t","e","r","\n">>

\* the characters str.splitlines ends a line at: line feed, carriage return
\* and form feed here; Python also takes \v, \x1c-\x1e, \x85, U+2028 and
\* U+2029, and a carriage return with the line feed after it as one line end
LineBoundaries == {"\n", "\r", "\f"}

\* where the line that starts at position i of s ends: the first position
\* from i on that holds one of the characters ends, or Len(s) + 1
LineEnd(s, i, ends) ==
  LET at == {j \in i..Len(s) : s[j] \in ends}
  IN IF at = {} THEN Len(s) + 1
     ELSE CHOOSE j \in at : \A k \in at : j <= k

RECURSIVE SplitFrom(_, _, _)
\* the lines of s from position i on, ends being the characters that end a
\* line (a carriage return and the line feed after it end one line)
SplitFrom(s, i, ends) ==
  IF i > Len(s) THEN <<>>
  ELSE LET j == LineEnd(s, i, ends)
       IN IF j > Len(s) THEN <<SubSeq(s, i, Len(s))>>
          ELSE <<SubSeq(s, i, j - 1)>>
               \o SplitFrom(s, IF s[j] = "\r" /\ j < Len(s) /\ s[j + 1] = "\n"
                                THEN j + 2 ELSE j + 1, ends)

\* splitting at line feeds only
splitlines_lf(s) == SplitFrom(s, 1, {"\n"})

\* str.splitlines(keepends=False)
splitlines(s) == SplitFrom(s, 1, LineBoundaries)

Whitespace == {" ", "\n", "\t", "\r"}

RECURSIVE rstrip(_)
\* str.rstrip()
rstrip(s) ==
  IF s # <<>> /\ s[Len(s)] \in Whitespace
  THEN rstrip(SubSeq(s, 1, Len(s) - 1))
  ELSE s

\* the commit and author dicts _get_gitlog fills from the six lines
parsed_commit(lines) ==
  [id |-> lines[1], epoch |-> lines[2], subject |-> lines[3],
   id_short |-> SubSeq(lines[1], 1, 7),
   date |-> datetime_format(PyStr(lines[2]))]

parsed_author(lines) ==
  [name |-> lines[4], email |-> lines[5], epoch |-> lines[6],
   date |-> datetime_format(PyInt(StrToInt(lines[6])))]

(***************************************************************************)
(* Gitget.__enter__, one step per statement that can fail.  The caller's   *)
(* with statement calls __exit__ only after __enter__ returned: an         *)
(* exception raised by __enter__ leaves the with statement at once.        *)
(* Each recorded subprocess carries the number of the with statement that  *)
(* started it.                                                             *)
(***************************************************************************)
\* one call of _run_command(cmd) ending with outcome o: the subprocess is
\* recorded with the standard output it returned to its caller (out, which
\* only _get_gitlog reads), and the step goes on to pc "next" or raises to
\* the caller
RunCommand(cmd, o, out, next) ==
  /\ calls' = Append(calls, [argv |-> run_argv(cmd), cwd |-> repodir,
                             outcome |-> o,
                             stdout |-> IF o = "ok" THEN out ELSE <<>>,
                             run |-> enters])
  /\ IF run_command_error(o) = "none"
     THEN pc' = next /\ UNCHANGED raised
     ELSE pc' = "failed" /\ Raise("__enter__", run_command_error(o))

\* __enter__ going on to the log whatever was requested
after_clone_log(c) == "gitlog"

\* if self._commit: self._checkout_commit() -- where __enter__ goes on after
\* the clone
after_clone(c) == IF Truthy(c) THEN "fetch" ELSE "gitlog"

\* _get_gitlog asking git for the branch whatever was requested
after_log_query(b) == "branch"

\* if not self._branch: where _get_gitlog goes on after the log
after_log(b) == IF Truthy(b) THEN "ready" ELSE "branch"

\* the directory set-up at the head of __enter__
EnterDir ==
  /\ enters' = enters + 1
  /\ IF PathExists(fs, repodir) /\ force
     THEN IF locked
          THEN /\ pc' = "failed"
               /\ Raise("__enter__", "PermissionError")
               /\ UNCHANGED fs
          ELSE /\ pc' = "clone"
               /\ fs' = mkdir(rmtree(fs, repodir), repodir)
               /\ UNCHANGED raised
     ELSE /\ pc' = "clone"
          /\ fs' = mkdir(fs, repodir)
          /\ UNCHANGED raised
  /\ fsEnter' = fs
  /\ UNCHANGED <<session, gitlog, locked, calls, rmCalls, request, fs0, other, quoting>>

\* the caller's with statement on a new object
Enter == pc = "created" /\ EnterDir

\* __enter__ looks at no state of the object before it starts: a caller may
\* write another with statement on an object whose with statement has ended
Reenter ==
  /\ pc \in {"released", "failed"}
  /\ enters \in 1..(MaxEnters - 1)
  /\ EnterDir

\* self._clone()
Clone ==
  /\ pc = "clone"
  /\ LET cmd == clone_cmd(depth, branch, repo, repodir)
         argv == run_argv(cmd)
     IN \E o \in CloneOutcomes(fs, repodir, argv), partial \in BOOLEAN :
          /\ partial => o \in Timeouts
          /\ RunCommand(cmd, o, <<>>, after_clone(commit))
          /\ fs' = CloneEffect(fs, CloneTarget(repodir, argv), o, partial)
  /\ UNCHANGED <<session, gitlog, locked, rmCalls, history, enters, other, quoting>>

\* self._checkout_commit(): the fetch
Fetch ==
  /\ pc = "fetch"
  /\ LET cmd == fetch_cmd(commit)
     IN \E o \in CommitOutcomes(fs, repodir, cmd[Len(cmd)]) :
          RunCommand(cmd, o, <<>>, "checkout")
  /\ UNCHANGED <<session, gitlog, fs, locked, rmCalls, history, enters, other, quoting>>

\* self._checkout_commit(): the checkout
Checkout ==
  /\ pc = "checkout"
  /\ LET cmd == checkout_cmd(commit)
     IN \E o \in CommitOutcomes(fs, repodir, cmd[Len(cmd)]) :
          RunCommand(cmd, o, <<>>, "gitlog")
  /\ UNCHANGED <<session, gitlog, fs, locked, rmCalls, history, enters, other, quoting>>

\* self._get_gitlog() up to the branch query: the log subcommand, the
\* unpacking of its six lines (ValueError for any other number of lines,
\* before any field is assigned) and the derived fields
GetGitlog ==
  /\ pc = "gitlog"
  /\ \E o \in RepoOutcomes(fs, repodir) :
       IF o # "ok"
       THEN RunCommand(log_cmd, o, <<>>, "failed") /\ UNCHANGED gitlog
       ELSE \E out \in LogStdouts(HeadOf(fs, repodir, commit)) :
              LET lines == splitlines(out)
              IN /\ calls' = Append(calls, [argv |-> run_argv(log_cmd),
                                            cwd |-> repodir, outcome |-> o,
                                            stdout |-> out, run |-> enters])
                 /\ IF Len(lines) # 6
                    THEN /\ pc' = "failed"
                         /\ Raise("__enter__", "ValueError")
                         /\ UNCHANGED gitlog
                    ELSE /\ pc' = after_log(branch)
                         /\ gitlog' = [gitlog EXCEPT
                                         !.commit = parsed_commit(lines),
                                         !.author = parsed_author(lines)]
                         /\ UNCHANGED raised
  /\ UNCHANGED <<session, fs, locked, rmCalls, history, enters, other, quoting>>

\* self._get_gitlog(): the branch query, made when no branch was requested
BranchQuery ==
  /\ pc = "branch"
  /\ \E o \in RepoOutcomes(fs, repodir) :
       /\ RunCommand(branch_cmd, o, BranchStdout, "ready")
       /\ gitlog' = IF o = "ok"
                    THEN [gitlog EXCEPT !.branch = rstrip(BranchStdout)]
                    ELSE gitlog
  /\ UNCHANGED <<session, fs, locked, rmCalls, history, enters, other, quoting>>

(***************************************************************************)
(* Gitget.__exit__ and Gitget.rmrepodir                                    *)
(***************************************************************************)
\* the exception shutil.rmtree(p) raises, or "none"
rmtree_error(f, p, lock) ==
  IF ~PathExists(f, p) THEN "FileNotFoundError"
  ELSE IF lock THEN "PermissionError"
  ELSE "none"

\* __exit__ removing the directory whoever owns it
exit_removes_always(keep) == TRUE

\* if not self._repodir_perist: whether __exit__ calls shutil.rmtree
exit_removes(keep) == ~keep

\* the exception __exit__ raises, or "none"
exit_error(f, p, keep, lock) ==
  IF exit_removes(keep) THEN rmtree_error(f, p, lock) ELSE "none"

\* leaving the with block
Exit ==
  /\ pc = "ready"
  /\ pc' = "released"
  /\ IF exit_error(fs, repodir, persist, locked) # "none"
     THEN /\ Raise("__exit__", exit_error(fs, repodir, persist, locked))
          /\ UNCHANGED fs
     ELSE /\ fs' = IF exit_removes(persist) THEN rmtree(fs, repodir) ELSE fs
          /\ UNCHANGED raised
  /\ UNCHANGED <<session, gitlog, locked, calls, rmCalls, history, enters, other, quoting>>

\* the exception rmrepodir raises, or "none"
rmrepodir_error(f, p, lock) ==
  IF PathExists(f, p) THEN rmtree_error(f, p, lock) ELSE "none"

\* the caller calls rmrepodir(): before or inside the with block, or after it
RmRepoDir ==
  /\ pc \in {"created", "ready", "released", "failed"}
  /\ rmCalls < MaxRmCalls
  /\ rmCalls' = rmCalls + 1
  /\ IF rmrepodir_error(fs, repodir, locked) # "none"
     THEN /\ Raise("rmrepodir", rmrepodir_error(fs, repodir, locked))
          /\ UNCHANGED fs
     ELSE /\ fs' = IF PathExists(fs, repodir) THEN rmtree(fs, repodir) ELSE fs
          /\ UNCHANGED raised
  /\ UNCHANGED <<pc, session, gitlog, locked, calls, history, enters, other, quoting>>

Next ==
  \/ Construct
  \/ Enter
  \/ Clone
  \/ Fetch
  \/ Checkout
  \/ GetGitlog
  \/ BranchQuery
  \/ Exit
  \/ RmRepoDir

Spec == Init /\ [][Next]_vars

\* the same caller, who may also use an object in several with statements
NextReuse == Next \/ Reenter

SpecReuse == Init /\ [][NextReuse]_vars

(***************************************************************************)
(* Two Gitget objects in one process.  All state of the class is held in   *)
(* attributes of the object, and every subprocess gets its directory with  *)
(* cwd=: the objects share the file system and nothing else.  The caller   *)
(* steps one object at a time and may turn to the other one between any    *)
(* two steps, which gives every interleaving of their steps.               *)
(***************************************************************************)
\* the caller turns to the other object.  fs0 and fsEnter, which record what
\* one object found, start again from the present file system.
Switch ==
  /\ other' = Object(pc, depth, branch, commit, repo, repodir, persist, force,
                     gitlog, calls, raised, rmCalls, request, enters, fs)
  /\ pc' = other.pc
  /\ depth' = other.depth
  /\ branch' = other.branch
  /\ commit' = other.commit
  /\ repo' = other.repo
  /\ repodir' = other.repodir
  /\ persist' = other.persist
  /\ force' = other.force
  /\ gitlog' = other.gitlog
  /\ calls' = other.calls
  /\ raised' = other.raised
  /\ rmCalls' = other.rmCalls
  /\ request' = other.request
  /\ fs0' = fs
  /\ fsEnter' = fs
  /\ enters' = other.enters
  /\ UNCHANGED <<fs, locked, quoting>>

\* the runs of two objects that the model follows: each a full clone, of
\* the default branch or of a commit, into a temporary or a caller-supplied
\* directory that can be removed; clone ends with status 0 or with another
\* status, the later subcommands as git decides, the log prints its six
\* lines, and rmrepodir is called after the with statement, at most
\* MaxPairRmCalls times on an object
PairBound ==
  /\ ~locked
  /\ pc # "invalid"
  /\ depth = 0
  /\ branch = None
  /\ commit \in {None, Rep("f", CommitIdLen)}
  /\ calls # <<>> =>
       \/ calls[Len(calls)].outcome \in {"ok", "rejected"}
       \/ /\ calls[Len(calls)].outcome = "exit"
          /\ Subcommand(calls[Len(calls)]) = Lit("clone")
  /\ \A i \in 1..Len(raised) : raised[i].kind # "ValueError"
  /\ rmCalls <= MaxPairRmCalls
  /\ rmCalls > 0 => pc \in {"released", "failed"}

ConstructPaired == Construct /\ PairBound'
EnterPaired == Enter /\ PairBound'
ClonePaired == Clone /\ PairBound'
FetchPaired == Fetch /\ PairBound'
CheckoutPaired == Checkout /\ PairBound'
GetGitlogPaired == GetGitlog /\ PairBound'
BranchQueryPaired == BranchQuery /\ PairBound'
ExitPaired == Exit /\ PairBound'
RmRepoDirPaired == RmRepoDir /\ PairBound'

NextPair ==
  \/ ConstructPaired
  \/ EnterPaired
  \/ ClonePaired
  \/ FetchPaired
  \/ CheckoutPaired
  \/ GetGitlogPaired
  \/ BranchQueryPaired
  \/ ExitPaired
  \/ RmRepoDirPaired
  \/ Switch

SpecPair == Init /\ [][NextPair]_vars

(***************************************************************************)
(* Gitget._sh_quote called on its own, for every short string over the     *)
(* characters a shell treats specially and for some integers.              *)
(***************************************************************************)
\* the backquote character (a TLA+ string cannot hold it)
Backquote == "backquote"
QuoteAlphabet == {"a", "-", " ", "'", ";", Backquote, "$", "\"", "\\"}
QuoteStrings == UNION {[1..n -> QuoteAlphabet] : n \in 0..MaxQuoteLen}
QuoteInts == {0 - MaxNegDepth, 0, 7, 1234}
ShArgs == {PyStr(w) : w \in QuoteStrings} \cup {PyInt(n) : n \in QuoteInts}

InitQuote == InitGitget /\ shArg \in ShArgs /\ shQuoted = None

\* Gitget._sh_quote(arg)
ShQuote ==
  /\ shQuoted = None
  /\ shQuoted' = sh_quote(shArg)
  /\ UNCHANGED <<pc, session, gitlog, fs, locked, calls, raised, rmCalls,
                 history, enters, other, shArg>>

NextQuote == ShQuote

SpecQuote == InitQuote /\ [][NextQuote]_vars

(***************************************************************************)
(* How a POSIX shell splits a command line into words.                     *)
(***************************************************************************)
ShellBlank == {" ", "\t", "\n"}
\* characters that, unquoted, end a word or start an expansion
ShellMeta == {";", "&", "|", "<", ">", "(", ")", "$", Backquote, "*", "?", "[",
              "#", "~", "!", "{", "}"}
\* inside double quotes these keep their meaning
DoubleQuoteMeta == {"$", Backquote}
\* what the shell makes of a line that is not a list of literal words
NotLiteral == <<<<"not literal words">>>>

RECURSIVE ShellWords(_, _, _, _, _, _)
\* the words of s from position i on: mode is "plain", "single" or "double",
\* cur the word read so far, open whether a word has begun, done the words
\* completed
ShellWords(s, i, mode, cur, open, done) ==
  IF i > Len(s)
  THEN IF mode # "plain" THEN NotLiteral
       ELSE IF open THEN Append(done, cur) ELSE done
  ELSE LET c == s[i] IN
    CASE mode = "single" ->
           IF c = "'" THEN ShellWords(s, i + 1, "plain", cur, TRUE, done)
           ELSE ShellWords(s, i + 1, "single", Append(cur, c), TRUE, done)
      [] mode = "double" ->
           IF c = "\"" THEN ShellWords(s, i + 1, "plain", cur, TRUE, done)
           ELSE IF c \in DoubleQuoteMeta THEN NotLiteral
           ELSE IF c = "\\" /\ i < Len(s)
                   /\ s[i + 1] \in DoubleQuoteMeta \cup {"\"", "\\"}
                THEN ShellWords(s, i + 2, "double", Append(cur, s[i + 1]), TRUE, done)
           ELSE ShellWords(s, i + 1, "double", Append(cur, c), TRUE, done)
      [] OTHER ->
           IF c \in ShellBlank
           THEN ShellWords(s, i + 1, "plain", <<>>, FALSE,
                           IF open THEN Append(done, cur) ELSE done)
           ELSE IF c = "'" THEN ShellWords(s, i + 1, "single", cur, TRUE, done)
           ELSE IF c = "\"" THEN ShellWords(s, i + 1, "double", cur, TRUE, done)
           ELSE IF c = "\\"
                THEN IF i < Len(s)
                     THEN ShellWords(s, i + 2, "plain", Append(cur, s[i + 1]), TRUE, done)
                     ELSE NotLiteral
           ELSE IF c \in ShellMeta THEN NotLiteral
           ELSE ShellWords(s, i + 1, "plain", Append(cur, c), TRUE, done)

ShellSplit(s) == ShellWords(s, 1, "plain", <<>>, FALSE, <<>>)

\* every character is one shlex.quote leaves as it is
NoSpecialChars(s) == \A i \in 1..Len(s) : s[i] \in SafeChars

(***************************************************************************)
(* Properties.                                                             *)
(***************************************************************************)
Constructed == pc \notin {"new", "invalid"}
Entered == pc \in {"clone", "fetch", "checkout", "gitlog", "branch",
                   "ready", "released", "failed"}
LastCall == calls[Len(calls)]
\* __enter__ ended because the subprocess it had just started failed
SubcommandFailed == pc = "failed" /\ calls # <<>> /\ LastCall.outcome # "ok"
\* the exceptions one operation raised to the caller
RaisedBy(op) == {raised[i] : i \in {j \in 1..Len(raised) : raised[j].op = op}}
RaisedKinds(op) == {e.kind : e \in RaisedBy(op)}
\* where in raised the exception of the last failed __enter__ stands, and
\* its kind
LastEnterIdx ==
  CHOOSE i \in 1..Len(raised) :
    /\ raised[i].op = "__enter__"
    /\ \A j \in (i + 1)..Len(raised) : raised[j].op # "__enter__"
EnterError == raised[LastEnterIdx].kind
\* files left from before the session, in the working directory or below it
PriorEntries(f) ==
  {e \in UNION {f[d].files : d \in {q \in Dirs : Under(repodir, q)}} :
     e.by = "prior"}
\* the working directory held something when __enter__ was called
NonEmptyAtEnter ==
  PathExists(fsEnter, repodir) /\ ~IsEmptyDir(fsEnter, repodir)
\* nothing outside the program went wrong: directories can be removed, the
\* requested commit is a full object name, the network answered every
\* subcommand, and the log printed its six lines
EnvOk ==
  /\ ~locked
  /\ Truthy(commit) => Len(commit) = CommitIdLen
  /\ \A i \in 1..Len(calls) : calls[i].outcome \in {"ok", "rejected"}
  /\ "ValueError" \notin RaisedKinds("__enter__")

\* C1: once __enter__ has failed at a subcommand, a session-owned working
\* directory no longer exists (where the file system allows its removal).
C1_OwnedDirRemovedOnFailure ==
  (SubcommandFailed /\ ~persist /\ ~locked) => ~PathExists(fs, repodir)

\* C2: leaving the with block of a successful session leaves a
\* caller-supplied directory exactly as it was and removes a session-owned
\* one (unless the file system refuses the removal); a caller-supplied
\* directory on which rmrepodir was never called exists after __exit__.
C2_ReleaseRemovesIffOwned ==
  /\ [][(pc = "ready" /\ pc' = "released") =>
          IF persist THEN fs' = fs
          ELSE (locked \/ ~PathExists(fs', repodir))]_vars
  /\ []((pc = "released" /\ persist /\ rmCalls = 0) => PathExists(fs, repodir))

C2_Witness ==
  /\ pc = "released"
  /\ ~persist
  /\ rmCalls = 0
  /\ raised = <<>>
  /\ ~PathExists(fs, repodir)

\* C3: after __enter__ failed at a subcommand, info holds no commit and no
\* author field.
C3_NoPartialMetadata ==
  SubcommandFailed => (DOMAIN gitlog.commit = {} /\ DOMAIN gitlog.author = {})

\* C4: every failure of a subcommand, a non-zero exit status as well as a
\* timeout, reaches the caller as GitgetException.
C4_FailureIsGitgetException ==
  SubcommandFailed => EnterError = "GitgetException"

\* C5: __enter__ on a working directory that exists and is not empty fails
\* with GitgetException and leaves the directory as it was when force is
\* false; when force is true it succeeds (nothing outside the program going
\* wrong) and nothing of the prior contents remains.
C5_NonEmptyDirectory ==
  (Entered /\ NonEmptyAtEnter) =>
    IF ~force
    THEN /\ pc \in {"clone", "failed"}
         /\ pc = "failed" => /\ EnterError = "GitgetException"
                             /\ rmCalls = 0 => fs = fsEnter
    ELSE /\ EnvOk => pc # "failed"
         /\ ~locked => PriorEntries(fs) = {}

\* C5 for the directories shlex.quote leaves unchanged, where git receives
\* the path the session works in: there the statement of C5 holds.
C5_QuoteStableDirectory ==
  ShlexQuote(repodir) = repodir => C5_NonEmptyDirectory

\* C6: a negative depth makes __init__ raise ValueError, with no subprocess
\* started and the file system as it was.
C6_NegativeDepthRejected ==
  (pc # "new" /\ request.depth < 0) =>
    /\ pc = "invalid"
    /\ raised = <<[op |-> "__init__", kind |-> "ValueError"]>>
    /\ calls = <<>>
    /\ fs = fs0

C6_Witness ==
  /\ pc = "invalid"
  /\ request.depth < 0
  /\ request.commit = None
  /\ request.repodir = None

C8_ConstructLeavesDiskAlone ==
  (pc = "created" /\ rmCalls = 0) => fs = fs0

\* C8 as amended: __init__ starts no subprocess; with a caller-supplied
\* directory it leaves the file system as it was, and without one it has
\* created the empty temporary directory, which stays on disk when the
\* session is never entered.
C8_ConstructCreatesOnlyTmpDir ==
  (pc = "created" /\ rmCalls = 0) =>
    /\ calls = <<>>
    /\ IF persist THEN fs = fs0
       ELSE /\ fs = [fs0 EXCEPT ![repodir] = EmptyDir]
            /\ ~PathExists(fs0, repodir)

C8_Witness ==
  /\ pc = "created"
  /\ rmCalls = 0
  /\ ~persist
  /\ PathExists(fs, repodir)

\* C9: removing the working directory when it is absent is never an error,
\* in rmrepodir and in the __exit__ that follows a rmrepodir.
C9_RemoveAbsentIsNoError ==
  \A i \in 1..Len(raised) : raised[i].kind # "FileNotFoundError"

C11_ShortLogIsGitgetException ==
  (calls # <<>> /\ LastCall.argv = run_argv(log_cmd) /\ LastCall.outcome = "ok"
     /\ Len(splitlines(LastCall.stdout)) < 6) =>
    /\ pc = "failed"
    /\ EnterError = "GitgetException"

\* the subprocesses of the n-th with statement, in the order they started
RunCalls(n) == SelectSeq(calls, LAMBDA c : c.run = n)
\* the log subprocesses whose six lines filled the commit and author fields
InfoProduced ==
  {i \in 1..Len(calls) :
     /\ Subcommand(calls[i]) = Lit("log")
     /\ calls[i].outcome = "ok"
     /\ Len(splitlines(calls[i].stdout)) = 6}

\* C12: a session is used once: __enter__ runs at most once on an object
\* (released and failed are final), and the commit metadata is filled in at
\* most once.
C12_SingleUse ==
  /\ enters <= 1
  /\ Cardinality(InfoProduced) <= 1

\* the two objects work in distinct directories: mkdtemp sees to that for
\* temporary ones, the caller for the ones it supplies
DistinctDirs == ~(persist /\ other.persist /\ repodir = other.repodir)

\* C13: two objects with distinct working directories do not interfere, in
\* whatever order the caller steps them: a step of one object changes the file
\* system only inside that object's working directory, and the object the
\* caller is not stepping keeps its state, its metadata and the contents of
\* its working directory, so that each object runs as it would run alone.
C13_NoInterference ==
  /\ [][\A q \in Dirs : fs'[q] # fs[q] => Under(repodir', q)]_vars
  /\ []((DistinctDirs /\ other.repodir # None) =>
          OwnTree(fs, other.repodir) = other.tree)

C13_Witness ==
  /\ pc = "ready"
  /\ force
  /\ persist
  /\ other.pc = "released"
  /\ ~other.persist
  /\ DOMAIN gitlog.commit # {}
  /\ DOMAIN other.gitlog.commit # {}
  /\ calls[1].run = 1
  /\ NonEmptyAtEnter

\* C14 as stated: a shell splits _sh_quote(value) into exactly one word, the
\* string form of the value, and every value without special characters is
\* returned unchanged.
C14_QuoteRoundTrips ==
  shQuoted # None =>
    /\ ShellSplit(shQuoted) = <<StrOf(shArg)>>
    /\ NoSpecialChars(StrOf(shArg)) => shQuoted = StrOf(shArg)

\* C14 as amended: a shell splits _sh_quote(value) into exactly one word, the
\* string form of the value; a non-empty value without special characters is
\* returned unchanged, and the empty string is returned as ''.
C14_QuoteRoundTripsNonEmpty ==
  shQuoted # None =>
    /\ ShellSplit(shQuoted) = <<StrOf(shArg)>>
    /\ (StrOf(shArg) # <<>> /\ NoSpecialChars(StrOf(shArg))) =>
         shQuoted = StrOf(shArg)
    /\ StrOf(shArg) = <<>> => shQuoted = <<"'", "'">>

C14_Witness ==
  /\ shQuoted # None
  /\ StrOf(shArg) = <<"'", ";", " ">>
  /\ shQuoted # StrOf(shArg)
  /\ ShellSplit(shQuoted) = <<StrOf(shArg)>>

\* the subcommands __enter__ issues when none of them fails
ExpectedSubcommands ==
  <<Lit("clone")>>
  \o (IF Truthy(commit) THEN <<Lit("fetch"), Lit("checkout")>> ELSE <<>>)
  \o <<Lit("log")>>
  \o (IF Truthy(branch) THEN <<>> ELSE <<Lit("branch")>>)

\* C15: the subcommands of one __enter__ are issued one after another in the
\* order clone, fetch and checkout (both exactly when a commit was
\* requested), log, branch query; none is issued twice, each only after the
\* one before it ended with status 0, and a with block is reached only after
\* all of them.
C15_SubcommandOrder ==
  \A n \in 1..enters :
    LET r == RunCalls(n)
    IN /\ Len(r) <= Len(ExpectedSubcommands)
       /\ \A i \in 1..Len(r) : Subcommand(r[i]) = ExpectedSubcommands[i]
       /\ \A i \in 1..(Len(r) - 1) : r[i].outcome = "ok"
       /\ (n = enters /\ pc \in {"ready", "released"}) =>
            /\ Len(r) = Len(ExpectedSubcommands)
            /\ r[Len(r)].outcome = "ok"

C15_Witness ==
  /\ pc = "ready"
  /\ Truthy(commit)
  /\ ~Truthy(branch)
  /\ Len(calls) = 5
  /\ Subcommand(calls[2]) = Lit("fetch")
  /\ Subcommand(calls[3]) = Lit("checkout")

\* C16: after a subcommand of a session failed (a status other than 0 or a
\* timeout), the session issues no subcommand any more: a failed subprocess
\* is the last one the object ever started.
C16_NothingAfterFailure ==
  \A i \in 1..(Len(calls) - 1) : calls[i].outcome = "ok"

\* C16 inside one __enter__: a failed subprocess is the last one that
\* __enter__ started.  This holds, also when the object is entered again.
C16_NothingAfterFailureInEnter ==
  \A n \in 1..enters :
    \A i \in 1..(Len(RunCalls(n)) - 1) : RunCalls(n)[i].outcome = "ok"

\* the clone subprocesses the object started
CloneCalls == {i \in 1..Len(calls) : Subcommand(calls[i]) = Lit("clone")}
\* the arguments of a clone between the word clone and the last two
CloneOptions(c) == SubSeq(c.argv, Len(gitcmd) + 2, Len(c.argv) - 2)

\* C17: git clone receives --depth followed by the decimal depth exactly when
\* the depth is not 0, then --branch followed by the branch exactly when a
\* branch was given, and always the repository and then the target directory
\* as its last two arguments (each value as _sh_quote hands it over; what a
\* value that _sh_quote changes then denotes is the matter of C20).
C17_CloneArguments ==
  \A i \in CloneCalls :
    LET c == calls[i]
    IN /\ CloneOptions(c) =
            (IF depth # 0 THEN <<Lit("--depth"), IntToStr(depth)>> ELSE <<>>)
            \o (IF Truthy(branch)
                THEN <<Lit("--branch"), sh_quote(PyStr(branch))>> ELSE <<>>)
       /\ c.argv[Len(c.argv) - 1] = sh_quote(PyStr(repo))
       /\ c.argv[Len(c.argv)] = sh_quote(PyStr(repodir))
       /\ SubSeq(c.argv, 1, Len(gitcmd)) = gitcmd

C17_Witness ==
  /\ CloneCalls # {}
  /\ depth = 1
  /\ branch = BranchMain
  /\ repodir = UserDirSp
  /\ CloneOptions(calls[1]) =
       <<Lit("--depth"), <<"1">>, Lit("--branch"), BranchMain>>

\* the branch subprocesses the object started
BranchCalls == {i \in 1..Len(calls) : Subcommand(calls[i]) = Lit("branch")}
\* the name a branch query printed: its line of output, without the line end
BranchName(out) == IF splitlines(out) = <<>> THEN <<>> ELSE splitlines(out)[1]

\* C18: the branch query is issued exactly when no branch was requested.
\* With a requested branch no branch query is ever started and, once
\* __enter__ has returned, info's branch is the requested name; without one,
\* __enter__ returns only after one branch query, and info's branch is the
\* name that query printed.
C18_BranchQueryIffNoBranch ==
  /\ Truthy(branch) => BranchCalls = {}
  /\ pc \in {"ready", "released"} =>
       IF Truthy(branch)
       THEN gitlog.branch = request.branch
       ELSE /\ Subcommand(LastCall) = Lit("branch")
            /\ Cardinality({i \in BranchCalls : calls[i].run = enters}) = 1
            /\ gitlog.branch = BranchName(LastCall.stdout)

C18_Witness ==
  /\ pc = "ready"
  /\ request.branch = None
  /\ request.commit = None
  /\ gitlog.branch = <<"m","a","s","t","e","r">>

\* the log subprocess has just ended with status 0
LogReturned ==
  /\ calls # <<>>
  /\ Subcommand(LastCall) = Lit("log")
  /\ LastCall.outcome = "ok"
  /\ LastCall.run = enters
\* the fields of info are the lines l, in the order of the log format, with
\* the short id and the two dates derived from them
FieldsAre(l) ==
  /\ DOMAIN gitlog.commit # {}
  /\ DOMAIN gitlog.author # {}
  /\ gitlog.commit.id = l[1]
  /\ gitlog.commit.epoch = l[2]
  /\ gitlog.commit.subject = l[3]
  /\ gitlog.author.name = l[4]
  /\ gitlog.author.email = l[5]
  /\ gitlog.author.epoch = l[6]
  /\ gitlog.commit.id_short = SubSeq(l[1], 1, 7)
  /\ gitlog.commit.date = datetime_format(PyStr(l[2]))
  /\ gitlog.commit.date = datetime_format(PyInt(StrToInt(l[2])))
  /\ gitlog.author.date = datetime_format(PyStr(l[6]))
  /\ gitlog.author.date = datetime_format(PyInt(StrToInt(l[6])))

\* C19: for every log output of six lines (six lines ended by line feeds),
\* info's fields are those lines in the order id, commit epoch, subject,
\* author name, author email, author epoch; id_short is the first 7
\* characters of the id; commit.date is the date of the commit epoch and
\* author.date the date of the author epoch, the same for the epoch as integer
\* and as decimal string.
C19_ParseLogFields ==
  (LogReturned /\ Len(splitlines_lf(LastCall.stdout)) = 6) =>
    FieldsAre(splitlines_lf(LastCall.stdout))

\* C19 for the outputs in which no line holds another of the characters
\* str.splitlines ends a line at: there the statement of C19 holds.
C19_ParseLogFieldsPlain ==
  (LogReturned /\ Len(splitlines(LastCall.stdout)) = 6) =>
    /\ FieldsAre(splitlines(LastCall.stdout))
    /\ gitlog.commit.date # gitlog.author.date

\* C20: whatever the working directory is called, the directory git clone
\* is told to write is the directory __enter__ created, in which the
\* subprocesses run and which repodir reports, and the repository it is told
\* to clone is the requested one.
C20_CloneIntoWorkingDirectory ==
  \A i \in CloneCalls :
    /\ calls[i].cwd = repodir
    /\ CloneTarget(calls[i].cwd, calls[i].argv) = repodir
    /\ CloneSource(calls[i].argv) = request.repository

\* C20 for the directories shlex.quote leaves unchanged: there git is told
\* to write the working directory.
C20_QuoteStableDirectory ==
  ShlexQuote(repodir) = repodir => C20_CloneIntoWorkingDirectory

====

